---------------------------- MODULE Spec2Model ----------------------------
(*************************************************************************)
(* Model of production/new_cloud_extractor_q1.py: the assembly of the    *)
(* first-quadrant base catalog, the three region pipelines, the          *)
(* kinematic-distance disambiguator and the catalog compiler.            *)
(*                                                                       *)
(* Units.  Velocities are whole km/s, distances whole kpc, the angular   *)
(* radius whole milliradians, sizes whole parsecs (a radius of r mrad at *)
(* D kpc is r * D pc), fractional_gain is in hundredths, masses in solar *)
(* masses.  flux is the mass a structure has at 1 kpc.                   *)
(*************************************************************************)
EXTENDS Integers, Sequences, FiniteSets, TLC

VARIABLES
    catalog,      \* the pre-loaded global `catalog` (one record per structure)
    d,            \* the pre-loaded global dendrogram `d`
    reid,         \* what make_reid_distance_column returns for `catalog`
    pc,           \* position of the run
    catalog_cp,   \* the value first_quad_cloud_catalog() returned
    call,         \* locals of the most recent function invocation
    negative_v_catalog,            \* locals of compile_firstquad_catalog
    positive_v_catalog,
    low_v_catalog,
    composite_unreduced_catalog,
    composite_reduced_catalog

vars == <<catalog, d, reid, pc, catalog_cp, call, negative_v_catalog,
          positive_v_catalog, low_v_catalog, composite_unreduced_catalog,
          composite_reduced_catalog>>

-----------------------------------------------------------------------------
(* Bounds of the model *)

NumStructures == 2
MaxRadius == 3

(* Program constants *)

NaN == -999
PositiveVCenMin == 20
NegativeVCenMax == -5
PerseusVCenMin == -5
PerseusVCenMax == 20
PerseusXCenMin == 35
LatitudeLimit == 1
VRmsMin == 1
VRmsMax == 10
FractionalGainLimit == 81
GalacticCenterVCen == -10
GalacticCenterXCen == 20
PositiveMassMin == 30000
NegativeMassMin == 3000
PerseusMassMin == 30000
PerseusDistanceMin == 5
PerseusDistanceMax == 14
DefaultMaxDescendants == 30
CompilePerseusMaxDescendants == 10

-----------------------------------------------------------------------------
(* numpy helpers *)

Abs(x) == IF x < 0 THEN -x ELSE x

IsNaN(x) == x = NaN

\* IEEE comparisons: any comparison with NaN is False
FEq(a, b) == ~IsNaN(a) /\ ~IsNaN(b) /\ a = b
FGt(a, b) == ~IsNaN(a) /\ ~IsNaN(b) /\ a > b
FLt(a, b) == ~IsNaN(a) /\ ~IsNaN(b) /\ a < b
FLe(a, b) == ~IsNaN(a) /\ ~IsNaN(b) /\ a <= b

\* table[mask]: the rows whose mask entry is True, in order
Take(cat, mask) ==
    LET all == [i \in 1..Len(cat) |-> i]
        idxs == SelectSeq(all, LAMBDA i : mask[i])
    IN  [k \in 1..Len(idxs) |-> cat[idxs[k]]]

\* column[mask] = values[mask]
PutMask(col, mask, values) ==
    [i \in 1..Len(col) |-> IF mask[i] THEN values[i] ELSE col[i]]

\* table[name] = column
SetColumn(cat, name, col) ==
    [i \in 1..Len(cat) |->
        [f \in DOMAIN cat[i] \cup {name} |->
            IF f = name THEN col[i] ELSE cat[i][f]]]

\* astropy.table.vstack
vstack(tables) == tables[1] \o tables[2] \o tables[3]


-----------------------------------------------------------------------------
(* External collaborators, by their contracts *)

\* compute_tree_stats(catalog, d): adds the topology columns in place
compute_tree_stats(cat, dd) ==
    SetColumn(
        SetColumn(cat, "n_descendants",
                  [i \in 1..Len(cat) |-> dd.n_descendants[cat[i].idx]]),
        "fractional_gain",
        [i \in 1..Len(cat) |-> dd.fractional_gain[cat[i].idx]])

\* identify_edge_structures(d): one flag per structure, in row order
identify_edge_structures(dd) == dd.on_edge

\* make_reid_distance_column(catalog, nearfar): a table with column D_k
make_reid_distance_column(cat, nearfar) ==
    [D_k |-> [i \in 1..Len(cat) |-> reid[nearfar][cat[i].idx]]]

\* assign_properties(catalog): mass from distance and the row's flux;
\* a NaN distance gives a NaN mass
assign_properties(cat) ==
    SetColumn(cat, "mass",
              [i \in 1..Len(cat) |->
                  IF IsNaN(cat[i].distance) THEN NaN
                  ELSE cat[i].flux * cat[i].distance * cat[i].distance])

RECURSIVE Ancestors(_, _)
Ancestors(dd, s) ==
    IF dd.parent[s] = 0 THEN {}
    ELSE {dd.parent[s]} \cup Ancestors(dd, dd.parent[s])

\* reduce_catalog(d, catalog): drops every row that has an ancestor in the
\* catalog; only drops rows
reduce_catalog(dd, cat) ==
    Take(cat, [i \in 1..Len(cat) |->
                  ~\E j \in 1..Len(cat) : cat[j].idx \in Ancestors(dd, cat[i].idx)])

-----------------------------------------------------------------------------
(* distance_disambiguator *)

\* sky_radius.to(u.rad).value * distance, in pc
PhysicalSize(radius, distance) == radius * distance

\* (1 / quad2_fit_constant * v_rms) ** (1 / quad2_fit_power), to the parsec
ExpectedSize(v_rms) ==
    CASE v_rms = 1 -> 4
      [] v_rms = 2 -> 12
      [] v_rms = 10 -> 208
      [] v_rms = 11 -> 246

\* variant: the near mask with a strict comparison
UseNearDistance_Strict(near_size, far_size, expected_size) ==
    Abs(near_size - expected_size) < Abs(far_size - expected_size)

UseNearDistance(near_size, far_size, expected_size) ==
    Abs(near_size - expected_size) <= Abs(far_size - expected_size)

\* variant: the far mask with a non-strict comparison
UseFarDistance_NonStrict(near_size, far_size, expected_size) ==
    Abs(near_size - expected_size) >= Abs(far_size - expected_size)

UseFarDistance(near_size, far_size, expected_size) ==
    Abs(near_size - expected_size) > Abs(far_size - expected_size)

\* variant: the latitude mask without the absolute value
UseNearDistanceLatitude_NoAbs(row) == row.y_cen > LatitudeLimit

UseNearDistanceLatitude(row) == Abs(row.y_cen) > LatitudeLimit

distance_disambiguator(cat) ==
    LET rows == 1..Len(cat)
        near_distance == [i \in rows |-> cat[i].near_distance]
        far_distance == [i \in rows |-> cat[i].far_distance]
        zeros == [i \in rows |-> 0]
        near_size == [i \in rows |-> PhysicalSize(cat[i].radius, near_distance[i])]
        far_size == [i \in rows |-> PhysicalSize(cat[i].radius, far_distance[i])]
        expected_size == [i \in rows |-> ExpectedSize(cat[i].v_rms)]
        use_near_distance ==
            [i \in rows |-> UseNearDistance(near_size[i], far_size[i], expected_size[i])]
        use_far_distance ==
            [i \in rows |-> UseFarDistance(near_size[i], far_size[i], expected_size[i])]
        use_near_distance_latitude == [i \in rows |-> UseNearDistanceLatitude(cat[i])]
        best1 == PutMask(zeros, use_near_distance, near_distance)
        best2 == PutMask(best1, use_far_distance, far_distance)
    IN  PutMask(best2, use_near_distance_latitude, near_distance)

-----------------------------------------------------------------------------
(* first_quad_cloud_catalog *)

\* variant: the no-degeneracy mask with <= for ==
NoDegeneracy_Le(row) == FLe(row.near_distance, row.far_distance)

NoDegeneracy(row) == FEq(row.near_distance, row.far_distance)

first_quad_cloud_catalog ==
    LET cp1 == compute_tree_stats(catalog, d)
        cp2 == SetColumn(cp1, "on_edge", identify_edge_structures(d))
        near_distance_column == make_reid_distance_column(catalog, "near").D_k
        far_distance_column == make_reid_distance_column(catalog, "far").D_k
        cp3 == SetColumn(SetColumn(cp2, "near_distance", near_distance_column),
                         "far_distance", far_distance_column)
        no_degeneracy == [i \in 1..Len(cp3) |-> NoDegeneracy(cp3[i])]
        distance_column ==
            PutMask([i \in 1..Len(cp3) |-> NaN], no_degeneracy,
                    [i \in 1..Len(cp3) |-> cp3[i].near_distance])
        cp4 == SetColumn(cp3, "distance", distance_column)
    IN  [fn |-> "first_quad_cloud_catalog",
         disambiguated |-> << >>,
         assigned |-> <<cp4>>,
         output_catalog |-> assign_properties(cp4)]

-----------------------------------------------------------------------------
(* The region pipelines *)

\* variant: the disambiguated distance is not written back
WriteBestDistance_Dropped(cat, best_distance) == cat

\* almost_output_catalog['distance'] = best_distance
WriteBestDistance(cat, best_distance) == SetColumn(cat, "distance", best_distance)

PositiveDisqualified(row) ==
    \/ row.v_cen < PositiveVCenMin
    \/ row.on_edge = 1
    \/ row.v_rms <= VRmsMin
    \/ row.v_rms > VRmsMax

PositiveQualified(row, max_descendants) ==
    /\ row.n_descendants < max_descendants
    /\ row.fractional_gain < FractionalGainLimit

\* variant: the final mass cut with >= for >
PositiveFinalQualified_NonStrict(row) ==
    ~IsNaN(row.mass) /\ row.mass >= PositiveMassMin

PositiveFinalQualified(row) == FGt(row.mass, PositiveMassMin)

get_positive_velocity_clouds(input_catalog, max_descendants) ==
    LET cat == input_catalog
        pre_output_catalog ==
            Take(cat, [i \in 1..Len(cat) |->
                          /\ ~PositiveDisqualified(cat[i])
                          /\ PositiveQualified(cat[i], max_descendants)])
        reduced == reduce_catalog(d, pre_output_catalog)
        best_distance == distance_disambiguator(reduced)
        written == WriteBestDistance(reduced, best_distance)
        almost_output_catalog == assign_properties(written)
    IN  [fn |-> "get_positive_velocity_clouds",
         max_descendants |-> max_descendants,
         pre_output_catalog |-> pre_output_catalog,
         disambiguated |-> <<reduced>>,
         best_distance |-> best_distance,
         assigned |-> <<written>>,
         almost_output_catalog |-> almost_output_catalog,
         output_catalog |->
             Take(almost_output_catalog,
                  [i \in 1..Len(almost_output_catalog) |->
                      PositiveFinalQualified(almost_output_catalog[i])])]

\* variant: the velocity limit with its sign lost
NegativeDisqualified_SignLost(row) ==
    \/ row.v_cen > -NegativeVCenMax
    \/ row.on_edge = 1

NegativeDisqualified(row) ==
    \/ row.v_cen > NegativeVCenMax
    \/ row.on_edge = 1

\* variant: the galactic-centre tail with x_cen <= 20
NegativeDisqualifiedExtreme_Le(row) ==
    /\ row.v_cen < GalacticCenterVCen
    /\ row.x_cen <= GalacticCenterXCen

NegativeDisqualifiedExtreme(row) ==
    /\ row.v_cen < GalacticCenterVCen
    /\ row.x_cen < GalacticCenterXCen

NegativeFinalQualified(row) == FGt(row.mass, NegativeMassMin)

get_negative_velocity_clouds(input_catalog, max_descendants) ==
    LET cat == input_catalog
        pre_output_catalog ==
            Take(cat, [i \in 1..Len(cat) |->
                          /\ ~NegativeDisqualified(cat[i])
                          /\ ~NegativeDisqualifiedExtreme(cat[i])])
        almost_output_catalog == reduce_catalog(d, pre_output_catalog)
    IN  [fn |-> "get_negative_velocity_clouds",
         max_descendants |-> max_descendants,
         pre_output_catalog |-> pre_output_catalog,
         disambiguated |-> << >>,
         best_distance |-> << >>,
         assigned |-> << >>,
         almost_output_catalog |-> almost_output_catalog,
         output_catalog |->
             Take(almost_output_catalog,
                  [i \in 1..Len(almost_output_catalog) |->
                      NegativeFinalQualified(almost_output_catalog[i])])]

\* np.abs(catalog['y_cen'] > 1): the absolute value is taken of the
\* comparison's Boolean result, which it leaves as it is
PerseusLatitudeDisqualified(row) == row.y_cen > LatitudeLimit

PerseusDisqualified(row) ==
    \/ row.v_cen < PerseusVCenMin
    \/ row.v_cen > PerseusVCenMax
    \/ PerseusLatitudeDisqualified(row)
    \/ row.x_cen < PerseusXCenMin
    \/ row.on_edge = 1
    \/ row.v_rms <= VRmsMin
    \/ row.v_rms > VRmsMax

PerseusQualified(row, max_descendants) ==
    /\ row.n_descendants < max_descendants
    /\ row.fractional_gain < FractionalGainLimit

PerseusFinalQualified(row) ==
    /\ FGt(row.mass, PerseusMassMin)
    /\ FGt(row.distance, PerseusDistanceMin)
    /\ FLt(row.distance, PerseusDistanceMax)

get_low_velocity_perseus_clouds(input_catalog, max_descendants) ==
    LET cat == input_catalog
        pre_output_catalog ==
            Take(cat, [i \in 1..Len(cat) |->
                          /\ ~PerseusDisqualified(cat[i])
                          /\ PerseusQualified(cat[i], max_descendants)])
        reduced == reduce_catalog(d, pre_output_catalog)
        best_distance == distance_disambiguator(reduced)
        written == WriteBestDistance(reduced, best_distance)
        almost_output_catalog == assign_properties(written)
    IN  [fn |-> "get_low_velocity_perseus_clouds",
         max_descendants |-> max_descendants,
         pre_output_catalog |-> pre_output_catalog,
         disambiguated |-> <<reduced>>,
         best_distance |-> best_distance,
         assigned |-> <<written>>,
         almost_output_catalog |-> almost_output_catalog,
         output_catalog |->
             Take(almost_output_catalog,
                  [i \in 1..Len(almost_output_catalog) |->
                      PerseusFinalQualified(almost_output_catalog[i])])]

\* variant: the stacked catalog is returned as it is
CompositeReduced_Skipped(dd, composite) == composite

\* composite_reduced_catalog = reduce_catalog(d, composite_unreduced_catalog)
CompositeReduced(dd, composite) == reduce_catalog(dd, composite)

-----------------------------------------------------------------------------
(* Inputs *)

VCenValues == {-11, -10, -6, -5, -4, 19, 20, 21, 25}
XCenValues == {15, 20, 34, 35}
YCenValues == {-2, -1, 0, 1, 2}
VRmsValues == {1, 2, 10, 11}
NDescendantsValues == {9, 10, 29, 30}
FractionalGainValues == {80, 81}
DistanceValues == {2, 5, 6, 10, 14, 15}
FluxValues == {30, 300, 301, 1300}
MaxDescendantsValues == {CompilePerseusMaxDescendants, DefaultMaxDescendants}

\* the globals for structures 1..Len(rows) with the given attributes
World(rows, parent) ==
    [catalog |-> [i \in 1..Len(rows) |->
                    [idx |-> i, v_cen |-> rows[i].v_cen, v_rms |-> rows[i].v_rms,
                     x_cen |-> rows[i].x_cen, y_cen |-> rows[i].y_cen,
                     radius |-> rows[i].radius, flux |-> rows[i].flux]],
     d |-> [parent |-> parent,
            n_descendants |-> [i \in 1..Len(rows) |-> rows[i].n_descendants],
            fractional_gain |-> [i \in 1..Len(rows) |-> rows[i].fractional_gain],
            on_edge |-> [i \in 1..Len(rows) |-> rows[i].on_edge]],
     reid |-> [near |-> [i \in 1..Len(rows) |-> rows[i].near],
               far |-> [i \in 1..Len(rows) |-> rows[i].far]]]

\* one structure, every combination of the attributes the region filters read
FilterGrid ==
    {World(<<[v_cen |-> v, x_cen |-> x, y_cen |-> y, on_edge |-> e, v_rms |-> w,
              n_descendants |-> n, fractional_gain |-> g,
              radius |-> 1, flux |-> 301, near |-> 10, far |-> 10]>>, <<0>>) :
        v \in VCenValues, x \in XCenValues, y \in YCenValues, e \in {0, 1},
        w \in VRmsValues, n \in NDescendantsValues, g \in FractionalGainValues}

\* one structure in each region, every combination of the attributes the
\* disambiguator and the final cuts read
DistanceGrid ==
    {World(<<[v_cen |-> v, x_cen |-> 35, y_cen |-> y, on_edge |-> 0, v_rms |-> w,
              n_descendants |-> 9, fractional_gain |-> 80,
              radius |-> r, flux |-> f, near |-> nf[1], far |-> nf[2]]>>, <<0>>) :
        v \in {-7, 10, 25}, y \in {-2, 0, 2}, w \in {2, 10},
        r \in 1..MaxRadius, f \in FluxValues,
        nf \in {p \in DistanceValues \X DistanceValues : p[1] <= p[2]}}

Palette ==
    {[v_cen |-> v, x_cen |-> 35, y_cen |-> 0, on_edge |-> 0, v_rms |-> 2,
      n_descendants |-> 9, fractional_gain |-> 80,
      radius |-> 1, flux |-> 301, near |-> nf[1], far |-> nf[2]] :
        v \in {-7, 10, 20, 25}, nf \in {<<10, 10>>, <<2, 10>>}}

Parents(n) == {p \in [1..n -> 0..n] : \A i \in 1..n : p[i] < i}

\* up to NumStructures structures in a dendrogram
TreeCatalogs ==
    UNION {{World(rows, parent) : rows \in [1..n -> Palette], parent \in Parents(n)} :
              n \in 0..NumStructures}

-----------------------------------------------------------------------------
(* The run *)

Loaded(worlds) ==
    \E w \in worlds :
        /\ catalog = w.catalog
        /\ d = w.d
        /\ reid = w.reid

Init ==
    /\ \/ Loaded(TreeCatalogs)
       \/ Loaded(FilterGrid)
       \/ Loaded(DistanceGrid)
    /\ pc = "start"
    /\ catalog_cp = << >>
    /\ call = [fn |-> "none"]
    /\ negative_v_catalog = << >>
    /\ positive_v_catalog = << >>
    /\ low_v_catalog = << >>
    /\ composite_unreduced_catalog = << >>
    /\ composite_reduced_catalog = << >>

FirstQuadCloudCatalog ==
    /\ pc = "start"
    /\ call' = first_quad_cloud_catalog
    /\ catalog_cp' = call'.output_catalog
    /\ pc' = "base"
    /\ UNCHANGED <<catalog, d, reid, negative_v_catalog, positive_v_catalog,
                   low_v_catalog, composite_unreduced_catalog,
                   composite_reduced_catalog>>

CallUnchanged ==
    UNCHANGED <<catalog, d, reid, pc, catalog_cp, negative_v_catalog,
                positive_v_catalog, low_v_catalog, composite_unreduced_catalog,
                composite_reduced_catalog>>

GetPositiveVelocityClouds ==
    /\ pc = "base"
    /\ \E md \in MaxDescendantsValues :
          call' = get_positive_velocity_clouds(catalog_cp, md)
    /\ CallUnchanged

GetNegativeVelocityClouds ==
    /\ pc = "base"
    /\ \E md \in MaxDescendantsValues :
          call' = get_negative_velocity_clouds(catalog_cp, md)
    /\ CallUnchanged

GetLowVelocityPerseusClouds ==
    /\ pc = "base"
    /\ \E md \in MaxDescendantsValues :
          call' = get_low_velocity_perseus_clouds(catalog_cp, md)
    /\ CallUnchanged

DistanceDisambiguator ==
    /\ pc = "base"
    /\ call' = [fn |-> "distance_disambiguator",
                disambiguated |-> <<catalog_cp>>,
                best_distance |-> distance_disambiguator(catalog_cp),
                assigned |-> << >>]
    /\ CallUnchanged

CompileNegative ==
    /\ pc = "base"
    /\ call' = get_negative_velocity_clouds(catalog_cp, DefaultMaxDescendants)
    /\ negative_v_catalog' = call'.output_catalog
    /\ pc' = "compile_negative"
    /\ UNCHANGED <<catalog, d, reid, catalog_cp, positive_v_catalog, low_v_catalog,
                   composite_unreduced_catalog, composite_reduced_catalog>>

CompilePositive ==
    /\ pc = "compile_negative"
    /\ call' = get_positive_velocity_clouds(catalog_cp, DefaultMaxDescendants)
    /\ positive_v_catalog' = call'.output_catalog
    /\ pc' = "compile_positive"
    /\ UNCHANGED <<catalog, d, reid, catalog_cp, negative_v_catalog, low_v_catalog,
                   composite_unreduced_catalog, composite_reduced_catalog>>

CompileLow ==
    /\ pc = "compile_positive"
    /\ call' = get_low_velocity_perseus_clouds(catalog_cp, CompilePerseusMaxDescendants)
    /\ low_v_catalog' = call'.output_catalog
    /\ pc' = "compile_low"
    /\ UNCHANGED <<catalog, d, reid, catalog_cp, negative_v_catalog, positive_v_catalog,
                   composite_unreduced_catalog, composite_reduced_catalog>>

CompileStack ==
    /\ pc = "compile_low"
    /\ composite_unreduced_catalog' =
          vstack(<<negative_v_catalog, positive_v_catalog, low_v_catalog>>)
    /\ pc' = "compile_stack"
    /\ UNCHANGED <<catalog, d, reid, catalog_cp, call, negative_v_catalog,
                   positive_v_catalog, low_v_catalog, composite_reduced_catalog>>

CompileReduce ==
    /\ pc = "compile_stack"
    /\ composite_reduced_catalog' = CompositeReduced(d, composite_unreduced_catalog)
    /\ pc' = "done"
    /\ UNCHANGED <<catalog, d, reid, catalog_cp, call, negative_v_catalog,
                   positive_v_catalog, low_v_catalog, composite_unreduced_catalog>>

Next ==
    \/ FirstQuadCloudCatalog
    \/ GetPositiveVelocityClouds
    \/ GetNegativeVelocityClouds
    \/ GetLowVelocityPerseusClouds
    \/ DistanceDisambiguator
    \/ CompileNegative
    \/ CompilePositive
    \/ CompileLow
    \/ CompileStack
    \/ CompileReduce

Spec == Init /\ [][Next]_vars

-----------------------------------------------------------------------------
(* Properties *)

Rows(cat) == 1..Len(cat)

InCatalog(cat, s) == \E i \in Rows(cat) : cat[i].idx = s

PipelineCalled ==
    call.fn \in {"get_positive_velocity_clouds", "get_negative_velocity_clouds",
                 "get_low_velocity_perseus_clouds"}

DisambiguatorCalled ==
    /\ call.fn \in {"get_positive_velocity_clouds", "get_low_velocity_perseus_clouds",
                    "distance_disambiguator"}
    /\ Len(call.disambiguated) = 1

NearDeviation(row) ==
    Abs(PhysicalSize(row.radius, row.near_distance) - ExpectedSize(row.v_rms))

FarDeviation(row) ==
    Abs(PhysicalSize(row.radius, row.far_distance) - ExpectedSize(row.v_rms))

\* C1: the rows get_low_velocity_perseus_clouds passes to reduce_catalog are
\* exactly the rows with -5 <= v_cen <= 20, |y_cen| <= 1, x_cen >= 35,
\* on_edge = 0, 1 < v_rms <= 10, n_descendants < max_descendants and
\* fractional_gain < 0.81; a row with y_cen < -1 is never among them.
C1_PerseusRowSet ==
    call.fn = "get_low_velocity_perseus_clouds" =>
        call.pre_output_catalog =
            Take(catalog_cp,
                 [i \in Rows(catalog_cp) |->
                     LET row == catalog_cp[i] IN
                     /\ -5 <= row.v_cen /\ row.v_cen <= 20
                     /\ Abs(row.y_cen) <= 1
                     /\ row.x_cen >= 35
                     /\ row.on_edge = 0
                     /\ 1 < row.v_rms /\ row.v_rms <= 10
                     /\ row.n_descendants < call.max_descendants
                     /\ row.fractional_gain < 81])

\* C2: distance_disambiguator returns one entry per input row, in input
\* order, each the row's near_distance or far_distance; for a row with
\* |y_cen| <= 1 it is far_distance when the near size deviates from the
\* expected size by more than the far size does, and near_distance otherwise
\* (so also when the two deviations are equal).
C2_SizeRule ==
    DisambiguatorCalled =>
        LET cat == call.disambiguated[1]
            best == call.best_distance
        IN  /\ Len(best) = Len(cat)
            /\ \A i \in Rows(cat) :
                  /\ best[i] \in {cat[i].near_distance, cat[i].far_distance}
                  /\ Abs(cat[i].y_cen) <= 1 =>
                        best[i] = IF NearDeviation(cat[i]) > FarDeviation(cat[i])
                                  THEN cat[i].far_distance
                                  ELSE cat[i].near_distance

\* a row at low latitude whose two deviations tie got its near distance
C2_TieWitness ==
    /\ DisambiguatorCalled
    /\ \E i \in Rows(call.disambiguated[1]) :
          LET row == call.disambiguated[1][i] IN
          /\ Abs(row.y_cen) <= 1
          /\ row.near_distance # row.far_distance
          /\ NearDeviation(row) = FarDeviation(row)
          /\ call.best_distance[i] = row.near_distance

\* C3: for every row with |y_cen| > 1 distance_disambiguator returns the
\* row's near_distance, also when the size comparison selects far_distance.
C3_LatitudeOverride ==
    DisambiguatorCalled =>
        \A i \in Rows(call.disambiguated[1]) :
            Abs(call.disambiguated[1][i].y_cen) > 1 =>
                call.best_distance[i] = call.disambiguated[1][i].near_distance

\* a row below latitude -1 for which the size rule selects the far distance
C3_OverrideWitness ==
    /\ DisambiguatorCalled
    /\ \E i \in Rows(call.disambiguated[1]) :
          LET row == call.disambiguated[1][i] IN
          /\ row.y_cen < -1
          /\ row.near_distance # row.far_distance
          /\ NearDeviation(row) > FarDeviation(row)
          /\ call.best_distance[i] = row.near_distance

PassesPositive(s) ==
    \E md \in MaxDescendantsValues :
        InCatalog(get_positive_velocity_clouds(catalog_cp, md).pre_output_catalog, s)

PassesNegative(s) ==
    \E md \in MaxDescendantsValues :
        InCatalog(get_negative_velocity_clouds(catalog_cp, md).pre_output_catalog, s)

PassesPerseus(s) ==
    \E md \in MaxDescendantsValues :
        InCatalog(get_low_velocity_perseus_clouds(catalog_cp, md).pre_output_catalog, s)

\* C5 as stated: no row of the base catalog passes more than one of the three
\* region filters, whatever its v_cen.
C5_RegionsDisjoint ==
    \A i \in Rows(catalog_cp) :
        /\ ~(PassesPositive(i) /\ PassesNegative(i))
        /\ ~(PassesPositive(i) /\ PassesPerseus(i))
        /\ ~(PassesNegative(i) /\ PassesPerseus(i))

\* C5 amended: a row whose v_cen is neither 20 nor -5 passes at most one
\* region filter, the positive and the negative filter never share a row, a
\* row with v_cen exactly 20 passes at most the positive and the Perseus
\* filter and one with v_cen exactly -5 at most the negative and the Perseus
\* filter.
C5_RegionsDisjointOffBoundary ==
    \A i \in Rows(catalog_cp) :
        /\ ~(PassesPositive(i) /\ PassesNegative(i))
        /\ PassesPositive(i) /\ PassesPerseus(i) => catalog_cp[i].v_cen = 20
        /\ PassesNegative(i) /\ PassesPerseus(i) => catalog_cp[i].v_cen = -5

\* a row with v_cen = 25 passes the positive-velocity filter only, and a
\* row at latitude 0 with v_cen = 20 passes it and the Perseus filter
C5_BoundaryWitness ==
    \E i, j \in Rows(catalog_cp) :
        /\ catalog_cp[i].v_cen = 25
        /\ PassesPositive(i)
        /\ ~PassesNegative(i)
        /\ ~PassesPerseus(i)
        /\ catalog_cp[j].v_cen = 20
        /\ catalog_cp[j].y_cen = 0
        /\ PassesPositive(j)
        /\ PassesPerseus(j)
        /\ ~PassesNegative(j)

C7_FinalCuts ==
    /\ call.fn = "get_positive_velocity_clouds" =>
          /\ call.output_catalog =
                Take(call.almost_output_catalog,
                     [i \in Rows(call.almost_output_catalog) |->
                         /\ ~IsNaN(call.almost_output_catalog[i].mass)
                         /\ call.almost_output_catalog[i].mass > 30000])
          /\ \A i \in Rows(call.output_catalog) : call.output_catalog[i].mass > 30000
    /\ call.fn = "get_negative_velocity_clouds" =>
          /\ call.output_catalog =
                Take(call.almost_output_catalog,
                     [i \in Rows(call.almost_output_catalog) |->
                         /\ ~IsNaN(call.almost_output_catalog[i].mass)
                         /\ call.almost_output_catalog[i].mass > 3000])
          /\ \A i \in Rows(call.output_catalog) : call.output_catalog[i].mass > 3000
    /\ call.fn = "get_low_velocity_perseus_clouds" =>
          /\ call.output_catalog =
                Take(call.almost_output_catalog,
                     [i \in Rows(call.almost_output_catalog) |->
                         LET row == call.almost_output_catalog[i] IN
                         /\ ~IsNaN(row.mass) /\ row.mass > 30000
                         /\ ~IsNaN(row.distance)
                         /\ 5 < row.distance /\ row.distance < 14])
          /\ \A i \in Rows(call.output_catalog) :
                /\ call.output_catalog[i].mass > 30000
                /\ 5 < call.output_catalog[i].distance
                /\ call.output_catalog[i].distance < 14
    /\ call.fn \in {"get_positive_velocity_clouds", "get_low_velocity_perseus_clouds"} =>
          /\ Len(call.almost_output_catalog) = Len(call.best_distance)
          /\ \A i \in Rows(call.almost_output_catalog) :
                LET row == call.almost_output_catalog[i] IN
                /\ row.distance = call.best_distance[i]
                /\ row.mass = row.flux * call.best_distance[i] * call.best_distance[i]

\* a positive-velocity row whose mass is exactly 3e4 is cut
C7_ThresholdWitness ==
    /\ call.fn = "get_positive_velocity_clouds"
    /\ \E i \in Rows(call.almost_output_catalog) :
          /\ call.almost_output_catalog[i].mass = 30000
          /\ IsNaN(catalog_cp[call.almost_output_catalog[i].idx].mass)
          /\ ~InCatalog(call.output_catalog, call.almost_output_catalog[i].idx)

\* C8: in the catalog first_quad_cloud_catalog returns, a row with
\* near_distance = far_distance has that value as distance and a row with
\* near_distance # far_distance has a NaN distance.
C8_BaseDistance ==
    pc # "start" =>
        /\ Len(catalog_cp) = Len(catalog)
        /\ \A i \in Rows(catalog_cp) :
              LET row == catalog_cp[i] IN
              /\ row.near_distance = reid.near[i]
              /\ row.far_distance = reid.far[i]
              /\ row.near_distance = row.far_distance => row.distance = row.near_distance
              /\ row.near_distance # row.far_distance => IsNaN(row.distance)

\* a base catalog with a resolved and an unresolved row
C8_BothKindsWitness ==
    /\ pc = "base"
    /\ \E i, j \in Rows(catalog_cp) :
          /\ catalog_cp[i].near_distance = catalog_cp[i].far_distance
          /\ catalog_cp[i].distance = catalog_cp[i].near_distance
          /\ catalog_cp[j].near_distance # catalog_cp[j].far_distance
          /\ IsNaN(catalog_cp[j].distance)

\* C9 as stated: no region pipeline passes a row with near_distance =
\* far_distance to distance_disambiguator.
C9_UnambiguousNeverDisambiguated ==
    PipelineCalled =>
        \A k \in 1..Len(call.disambiguated) : \A i \in Rows(call.disambiguated[k]) :
            call.disambiguated[k][i].near_distance # call.disambiguated[k][i].far_distance

\* C9 amended: the negative-velocity pipeline never calls
\* distance_disambiguator and leaves every distance as the base catalog has
\* it; the positive-velocity and Perseus pipelines pass every reduced row to
\* it and overwrite the distance column, and for a row with near_distance =
\* far_distance the value written is the one the base catalog already had.
C9_UnambiguousDistanceKept ==
    /\ call.fn = "get_negative_velocity_clouds" =>
          /\ call.disambiguated = << >>
          /\ \A i \in Rows(call.almost_output_catalog) :
                call.almost_output_catalog[i] =
                    catalog_cp[call.almost_output_catalog[i].idx]
    /\ call.fn \in {"get_positive_velocity_clouds", "get_low_velocity_perseus_clouds"} =>
          \A i \in Rows(call.almost_output_catalog) :
              LET row == call.almost_output_catalog[i] IN
              row.near_distance = row.far_distance =>
                  /\ row.distance = row.near_distance
                  /\ row.distance = catalog_cp[row.idx].distance

\* a low-latitude row with near_distance = far_distance went through
\* distance_disambiguator and kept its distance
C9_PassedThroughWitness ==
    /\ call.fn \in {"get_positive_velocity_clouds", "get_low_velocity_perseus_clouds"}
    /\ \E i \in Rows(call.almost_output_catalog) :
          LET row == call.almost_output_catalog[i] IN
          /\ row.near_distance = row.far_distance
          /\ row.y_cen = 0
          /\ call.disambiguated[1][i].idx = row.idx
          /\ row.distance = catalog_cp[row.idx].distance

Stacked == negative_v_catalog \o positive_v_catalog \o low_v_catalog

Related(s, t) == s \in Ancestors(d, t) \/ t \in Ancestors(d, s)

\* how many rows of cat are the row `row`
Copies(cat, row) == Cardinality({i \in Rows(cat) : cat[i] = row})

\* the parts of C10 that do not concern repeated structures
C10_CompileShape ==
    /\ pc \in {"start", "base", "compile_negative", "compile_positive", "compile_low"} =>
          /\ composite_unreduced_catalog = << >>
          /\ composite_reduced_catalog = << >>
    /\ pc = "compile_negative" =>
          call.fn = "get_negative_velocity_clouds" /\ call.max_descendants = 30
    /\ pc = "compile_positive" =>
          call.fn = "get_positive_velocity_clouds" /\ call.max_descendants = 30
    /\ pc = "compile_low" =>
          call.fn = "get_low_velocity_perseus_clouds" /\ call.max_descendants = 10
    /\ pc \in {"compile_positive", "compile_low", "compile_stack", "done"} =>
          \A i \in Rows(positive_v_catalog) : positive_v_catalog[i].n_descendants < 30
    /\ pc \in {"compile_low", "compile_stack", "done"} =>
          \A i \in Rows(low_v_catalog) : low_v_catalog[i].n_descendants < 10
    /\ pc \in {"compile_stack", "done"} => composite_unreduced_catalog = Stacked
    /\ pc = "done" =>
          \* every returned row is a row of a region output
          /\ \A i \in Rows(composite_reduced_catalog) :
                Copies(composite_reduced_catalog, composite_reduced_catalog[i])
                    <= Copies(Stacked, composite_reduced_catalog[i])
          \* a row with no relative among the region outputs is returned
          /\ \A i \in Rows(Stacked) :
                (\A j \in Rows(Stacked) : ~Related(Stacked[i].idx, Stacked[j].idx)) =>
                    Copies(composite_reduced_catalog, Stacked[i]) = Copies(Stacked, Stacked[i])
          \* of every lineage among the region outputs one member is returned
          /\ \A i \in Rows(Stacked) :
                \E j \in Rows(composite_reduced_catalog) :
                    \/ composite_reduced_catalog[j].idx = Stacked[i].idx
                    \/ Related(composite_reduced_catalog[j].idx, Stacked[i].idx)
          \* no returned structure is an ancestor or descendant of another
          /\ \A i, j \in Rows(composite_reduced_catalog) :
                ~Related(composite_reduced_catalog[i].idx, composite_reduced_catalog[j].idx)

=============================================================================
